---- MODULE Spec2Model ----
(***************************************************************************)
(* A model of the AirtomSDK Python clients:                                *)
(*   src/python/src/HttpClient.py        transport configuration/executor  *)
(*   src/python/src/OpenAPIKeyClient.py  signed requests, schemes V1, V2   *)
(*   src/python/OpenAPITokenClient.py    token clients, credential refresh *)
(*                                                                         *)
(* Python strings are sequences of one-character strings, so that          *)
(* str.upper, str.rstrip, str.lstrip, str.split and int() are computed     *)
(* character by character.  None is the empty tuple <<>> and a present     *)
(* value v is the one-element tuple <<v>>.  A literal that the code never   *)
(* looks inside (a header value such as "application/json") is kept as one *)
(* fragment of such a sequence.                                            *)
(***************************************************************************)
EXTENDS Integers, Sequences, FiniteSets, TLC

VARIABLES
    http,       \* the HttpClient object (self.client of the API clients)
    sent,       \* the calls the current operation handed to requests.Session
    cli,        \* the API client object (token or key client)
    op,         \* the public operation being run and its arguments
    resp,       \* what the transport answered to the operation's call
    out,        \* how the operation ended: the value returned or the exception
    sig,        \* the signature computation of the operation
    thr,        \* the threads that share one OpenAPITokenClientV2
    mgr         \* the TokenManager object that wraps the client

vars == <<http, sent, cli, op, resp, out, sig, thr, mgr>>

apiVars == <<cli, op, resp, out, sig, thr, mgr>>

(***************************************************************************)
(* Python values                                                           *)
(***************************************************************************)
None == <<>>
Some(v) == <<v>>
IsNone(o) == o = <<>>
Val(o) == o[1]

\* Python truthiness of an Optional[int]: None and 0 are falsy.
TruthyInt(o) == o # <<>> /\ o[1] # 0

\* Python truthiness of an Optional[str]: None and "" are falsy.
TruthyStr(o) == o # <<>> /\ o[1] # <<>>

(***************************************************************************)
(* str methods                                                             *)
(***************************************************************************)
Digits == <<"0", "1", "2", "3", "4", "5", "6", "7", "8", "9">>

IsDigit(c) == \E i \in 1..10 : Digits[i] = c

DigitVal(c) == (CHOOSE i \in 1..10 : Digits[i] = c) - 1

\* str.split(sep) for a one-character separator: every occurrence splits, so
\* the result has (number of occurrences + 1) parts, some possibly empty.
RECURSIVE SplitAcc(_, _, _)
SplitAcc(s, sep, cur) ==
    IF s = <<>> THEN <<cur>>
    ELSE IF Head(s) = sep THEN <<cur>> \o SplitAcc(Tail(s), sep, <<>>)
    ELSE SplitAcc(Tail(s), sep, Append(cur, Head(s)))

Split(s, sep) == SplitAcc(s, sep, <<>>)

\* The value of a non-empty run of decimal digits.
RECURSIVE DigitsValue(_, _)
DigitsValue(s, acc) ==
    IF s = <<>> THEN acc ELSE DigitsValue(Tail(s), acc * 10 + DigitVal(Head(s)))

AllDigits(s) == s # <<>> /\ \A i \in 1..Len(s) : IsDigit(s[i])

\* int(s) for a str: an optional sign followed by decimal digits.  The result
\* is None when int() raises ValueError.  (Surrounding whitespace and "_"
\* digit separators, which int() also accepts, are not in ProxyAlphabet.)
ParseInt(s) ==
    IF s # <<>> /\ Head(s) = "-" /\ AllDigits(Tail(s)) THEN Some(0 - DigitsValue(Tail(s), 0))
    ELSE IF s # <<>> /\ Head(s) = "+" /\ AllDigits(Tail(s)) THEN Some(DigitsValue(Tail(s), 0))
    ELSE IF AllDigits(s) THEN Some(DigitsValue(s, 0))
    ELSE None

LowerCase ==
    << "a", "b", "c", "d", "e", "f", "g", "h", "i", "j", "k", "l", "m",
       "n", "o", "p", "q", "r", "s", "t", "u", "v", "w", "x", "y", "z" >>

UpperCase ==
    << "A", "B", "C", "D", "E", "F", "G", "H", "I", "J", "K", "L", "M",
       "N", "O", "P", "Q", "R", "S", "T", "U", "V", "W", "X", "Y", "Z" >>

UpperChar(c) ==
    IF \E i \in 1..26 : LowerCase[i] = c
    THEN UpperCase[CHOOSE i \in 1..26 : LowerCase[i] = c]
    ELSE c

\* str.upper().
Upper(s) == [i \in 1..Len(s) |-> UpperChar(s[i])]

\* str.rstrip(c) and str.lstrip(c) for a one-character argument.
RECURSIVE RStrip(_, _)
RStrip(s, c) ==
    IF s # <<>> /\ s[Len(s)] = c THEN RStrip(SubSeq(s, 1, Len(s) - 1), c) ELSE s

RECURSIVE LStrip(_, _)
LStrip(s, c) ==
    IF s # <<>> /\ Head(s) = c THEN LStrip(Tail(s), c) ELSE s

\* str(n) for an int n >= 0.
RECURSIVE IntToStr(_)
IntToStr(n) ==
    IF n < 10 THEN <<Digits[n + 1]>>
    ELSE IntToStr(n \div 10) \o <<Digits[(n % 10) + 1]>>

(***************************************************************************)
(* Header dictionaries                                                     *)
(***************************************************************************)
\* The header names the clients use.  A dictionary of headers is a function
\* on these names; None marks a name that is not in the dictionary.
HeaderNames ==
    { "Authorization", "token", "X-Auth", "X-HTTP-Method-Override", "Content-Type",
      "X-Api-Key", "X-Timestamp", "X-Nonce", "X-Signature", "User-Agent", "Accept" }

NoHeaders == [n \in HeaderNames |-> None]

\* dict.update(other) / requests' merge of request headers over session
\* headers: the entries of over win on a name both dictionaries hold.
Update(base, over) ==
    [n \in HeaderNames |-> IF over[n] # None THEN over[n] ELSE base[n]]

\* A dictionary literal with one entry.
Hdr(name, value) == [NoHeaders EXCEPT ![name] = Some(value)]

\* requests.Session().headers: the library's default headers.
NewSessionHeaders ==
    [NoHeaders EXCEPT !["User-Agent"] = Some(<<"python-requests">>),
                      !["Accept"] = Some(<<"*/*">>)]

(***************************************************************************)
(* Request payloads: json.dumps and form encoding                          *)
(***************************************************************************)
\* The Python values passed as data: None, a str, or a dict of str to str
\* (its items in insertion order).
DNone == [t |-> "none", s |-> <<>>, items |-> <<>>]
DStr(s) == [t |-> "str", s |-> s, items |-> <<>>]
DDict(items) == [t |-> "dict", s |-> <<>>, items |-> items]

Quoted(s) == <<"\"">> \o s \o <<"\"">>

RECURSIVE JsonItems(_)
JsonItems(items) ==
    IF items = <<>> THEN <<>>
    ELSE Quoted(items[1][1]) \o <<":", " ">> \o Quoted(items[1][2])
         \o (IF Len(items) > 1 THEN <<",", " ">> ELSE <<>>) \o JsonItems(Tail(items))

\* json.dumps(data, ensure_ascii=False).
JsonDumps(data) ==
    IF data.t = "none" THEN <<"n", "u", "l", "l">>
    ELSE IF data.t = "str" THEN Quoted(data.s)
    ELSE <<"{">> \o JsonItems(data.items) \o <<"}">>

RECURSIVE UrlEncodeItems(_)
UrlEncodeItems(items) ==
    IF items = <<>> THEN <<>>
    ELSE items[1][1] \o <<"=">> \o items[1][2]
         \o (IF Len(items) > 1 THEN <<"&">> ELSE <<>>) \o UrlEncodeItems(Tail(items))

\* The body requests sends for data=...: nothing for None or an empty dict,
\* a str as it is, a dict form-urlencoded.
RequestsBody(data) ==
    IF data.t = "none" THEN None
    ELSE IF data.t = "str" THEN (IF data.s = <<>> THEN None ELSE Some(data.s))
    ELSE IF data.items = <<>> THEN None
    ELSE Some(UrlEncodeItems(data.items))

(***************************************************************************)
(* HttpClient.py: HttpClientOption                                         *)
(***************************************************************************)
\* HttpClientOption.__init__: the options as given plus the default timeouts,
\* which are in seconds.
HttpClientOption(header, proxy_address, socket_timeout, connect_timeout, ignore_ssl) ==
    [ header |-> header,
      proxy_address |-> proxy_address,
      socket_timeout |-> socket_timeout,
      connect_timeout |-> connect_timeout,
      ignore_ssl |-> ignore_ssl,
      default_socket_timeout |-> 60,
      default_connect_timeout |-> 60 ]

(***************************************************************************)
(* HttpClient.py: transport adapters                                       *)
(***************************************************************************)
\* requests.adapters.HTTPAdapter(pool_connections, pool_maxsize, max_retries):
\* its pool manager uses the library's verifying TLS context.
HTTPAdapter(pool_connections, pool_maxsize, max_retries) ==
    [ class |-> "HTTPAdapter",
      check_hostname |-> TRUE,
      verify_mode |-> "CERT_REQUIRED",
      pool_connections |-> pool_connections,
      pool_maxsize |-> pool_maxsize,
      max_retries |-> max_retries ]

\* IgnoreSSLAdapter(): an HTTPAdapter built with the library's default pool
\* arguments, whose init_poolmanager installs a context with hostname checking
\* off and verify_mode CERT_NONE.
IgnoreSSLAdapter ==
    [ HTTPAdapter(10, 10, 0) EXCEPT
        !.class = "IgnoreSSLAdapter",
        !.check_hostname = FALSE,
        !.verify_mode = "CERT_NONE" ]

Prefixes == {"https://", "http://"}

\* requests.Session(): both prefixes are served by a default HTTPAdapter.
NewSessionAdapters == [p \in Prefixes |-> HTTPAdapter(10, 10, 0)]

\* Session.mount(prefix, adapter): the adapter replaces whatever served prefix.
Mount(adapters, prefix, adapter) == [adapters EXCEPT ![prefix] = adapter]

\* The adapters mounted by HttpClient.__init__, in the order of its statements.
MountAdapters(ignore_ssl) ==
    LET a0 == NewSessionAdapters
        a1 == IF ignore_ssl
              THEN Mount(Mount(a0, "https://", IgnoreSSLAdapter), "http://", IgnoreSSLAdapter)
              ELSE a0
        pool == HTTPAdapter(200, 20, 3)
    IN  Mount(Mount(a1, "https://", pool), "http://", pool)

(***************************************************************************)
(* HttpClient.py: HttpClient.__init__                                      *)
(***************************************************************************)
\* The proxy block of __init__: "skip" when proxy_address is falsy, "error"
\* when a ValueError is raised (wrong number of parts, or int() fails), else
\* the host and port that session.proxies is built from.
ParseProxy(proxy_address) ==
    IF ~TruthyStr(proxy_address) THEN [kind |-> "skip", host |-> <<>>, port |-> 0]
    ELSE LET proxy_parts == Split(Val(proxy_address), ":") IN
         IF Len(proxy_parts) # 2 THEN [kind |-> "error", host |-> <<>>, port |-> 0]
         ELSE LET proxy_port == ParseInt(proxy_parts[2]) IN
              IF IsNone(proxy_port) THEN [kind |-> "error", host |-> <<>>, port |-> 0]
              ELSE [kind |-> "proxy", host |-> proxy_parts[1], port |-> Val(proxy_port)]

Unbuilt ==
    [ status |-> "unbuilt", option |-> None, headers |-> NoHeaders, proxies |-> None,
      verify |-> TRUE, adapters |-> NewSessionAdapters ]

\* HttpClient.__init__(option): the constructed client, or status "ValueError"
\* when construction raised (the object is then never returned to the caller).
HttpClientInit(option) ==
    LET proxy == ParseProxy(option.proxy_address) IN
    IF proxy.kind = "error"
    THEN [ Unbuilt EXCEPT !.status = "ValueError", !.option = Some(option) ]
    ELSE [ status |-> "ok",
           option |-> Some(option),
           headers |-> Update(NewSessionHeaders, option.header),
           proxies |-> IF proxy.kind = "proxy"
                       THEN Some([host |-> proxy.host, port |-> proxy.port])
                       ELSE None,
           verify |-> ~option.ignore_ssl,
           adapters |-> MountAdapters(option.ignore_ssl) ]

(***************************************************************************)
(* HttpClient.py: timeouts                                                 *)
(***************************************************************************)
\* A duration in seconds as the transport receives it: whole seconds plus
\* thousandths.  ms / 1000 is the true division of the source.
DivideBy1000(ms) == [whole |-> ms \div 1000, milli |-> ms % 1000]

WholeSeconds(s) == [whole |-> s, milli |-> 0]

\* The duration of a transport timeout in milliseconds.
InMs(t) == t.whole * 1000 + t.milli

\* HttpClient._build_timeout: (connect_timeout, read_timeout) in seconds.
BuildTimeout(option) ==
    LET connect_timeout ==
            IF TruthyInt(option.connect_timeout)
            THEN DivideBy1000(Val(option.connect_timeout))
            ELSE WholeSeconds(option.default_connect_timeout)
        read_timeout ==
            IF TruthyInt(option.socket_timeout)
            THEN DivideBy1000(Val(option.socket_timeout))
            ELSE WholeSeconds(option.default_socket_timeout)
    IN  <<connect_timeout, read_timeout>>

(***************************************************************************)
(* HttpClient.py: the transport operations                                 *)
(***************************************************************************)
\* Session.get_adapter(url): the adapter mounted for the URL's prefix.
AdapterFor(client, url) == client.adapters[url[1]]

\* One call of requests.Session: what the session sends.  The session merges
\* its own headers under the headers of the call.
SessionRequest(client, verb, url, headers, body) ==
    [ verb |-> verb,
      url |-> url,
      headers |-> Update(client.headers, headers),
      body |-> body,
      timeout |-> BuildTimeout(Val(client.option)),
      verify |-> client.verify,
      adapter |-> AdapterFor(client, url) ]

\* json_data of post_json and get_json: a str is sent as it is.
JsonData(data) == IF data.t = "str" THEN data.s ELSE JsonDumps(data)

\* HttpClient.get(url, headers).
HttpGet(client, url, headers) ==
    SessionRequest(client, "GET", url, headers, None)

\* HttpClient.post_json(url, data, headers).
HttpPostJson(client, url, data, headers) ==
    SessionRequest(client, "POST", url,
        Update(Hdr("Content-Type", <<"application/json; charset=utf-8">>), headers),
        RequestsBody(DStr(JsonData(data))))

HttpPostForm_OwnContentTypeWins(client, url, data, headers) ==
    SessionRequest(client, "POST", url,
        Update(headers, Hdr("Content-Type",
                            <<"application/x-www-form-urlencoded; charset=UTF-8">>)),
        RequestsBody(data))

\* HttpClient.post_form(url, data, headers).
HttpPostForm(client, url, data, headers) ==
    SessionRequest(client, "POST", url,
        Update(Hdr("Content-Type",
                   <<"application/x-www-form-urlencoded; charset=UTF-8">>), headers),
        RequestsBody(data))

\* HttpClient.get_json(url, data).
HttpGetJson(client, url, data) ==
    SessionRequest(client, "GET", url,
        Hdr("Content-Type", <<"application/json; charset=utf-8">>),
        RequestsBody(DStr(JsonData(data))))

\* HttpClient.upload_files(url, files): a multipart body of the files, whose
\* Content-Type requests sets itself.
HttpUploadFiles(client, url, files) ==
    SessionRequest(client, "POST", url,
        Hdr("Content-Type", <<"multipart/form-data">>),
        Some(<<"multipart">> \o files))

(***************************************************************************)
(* Responses: HTTPResponse.text, HTTPResponse.json, results of operations  *)
(***************************************************************************)
\* A byte sequence that is not valid UTF-8, as one element of the content.
BadByte == "0xFF"

\* HTTPResponse.text: content.decode('utf-8', errors='ignore') drops what
\* does not decode.
Text(content) == SelectSeq(content, LAMBDA c : c # BadByte)

\* Decoded JSON values: null, booleans, integers, strings, and objects whose
\* members are such scalars.
JNull == [t |-> "null", n |-> 0, s |-> <<>>, members |-> <<>>]
JBool(b) == [t |-> "bool", n |-> IF b THEN 1 ELSE 0, s |-> <<>>, members |-> <<>>]
JNum(n) == [t |-> "num", n |-> n, s |-> <<>>, members |-> <<>>]
JStr(s) == [t |-> "str", n |-> 0, s |-> s, members |-> <<>>]
JObj(members) == [t |-> "obj", n |-> 0, s |-> <<>>, members |-> members]

\* A JSON integer: no leading zeros, an optional minus sign.
IsJsonInt(s) ==
    LET d == IF s # <<>> /\ Head(s) = "-" THEN Tail(s) ELSE s IN
    AllDigits(d) /\ (Len(d) = 1 \/ Head(d) # "0")

\* A JSON string without escapes: quotes around characters that are neither
\* a quote nor a backslash.
IsJsonString(s) ==
    /\ Len(s) >= 2
    /\ s[1] = "\"" /\ s[Len(s)] = "\""
    /\ \A i \in 2..(Len(s) - 1) : s[i] \notin {"\"", "\\", BadByte}

\* json.loads of a scalar; None when the text is no scalar.
LoadsScalar(s) ==
    IF s = <<"n", "u", "l", "l">> THEN Some(JNull)
    ELSE IF s = <<"t", "r", "u", "e">> THEN Some(JBool(TRUE))
    ELSE IF s = <<"f", "a", "l", "s", "e">> THEN Some(JBool(FALSE))
    ELSE IF IsJsonInt(s) THEN Some(JNum(Val(ParseInt(s))))
    ELSE IF IsJsonString(s) THEN Some(JStr(SubSeq(s, 2, Len(s) - 1)))
    ELSE None

\* One member "key":value of an object; None when malformed.
LoadsMember(m) ==
    LET kv == Split(m, ":") IN
    IF Len(kv) = 2 /\ IsJsonString(kv[1]) /\ LoadsScalar(kv[2]) # None
    THEN Some(<<SubSeq(kv[1], 2, Len(kv[1]) - 1), Val(LoadsScalar(kv[2]))>>)
    ELSE None

\* json.loads(text) on the texts of ResponseContents: scalars and one-level
\* objects written without whitespace.  None stands for JSONDecodeError.
JsonLoads(text) ==
    IF Len(text) >= 2 /\ text[1] = "{" /\ text[Len(text)] = "}"
    THEN LET inner == SubSeq(text, 2, Len(text) - 1)
             ms == IF inner = <<>> THEN <<>> ELSE Split(inner, ",")
         IN  IF \A i \in 1..Len(ms) : LoadsMember(ms[i]) # None
             THEN Some(JObj([i \in 1..Len(ms) |-> Val(LoadsMember(ms[i]))]))
             ELSE None
    ELSE LoadsScalar(text)

\* What an operation returns: a decoded JSON value or a text.
NoValue == [t |-> "none", json |-> JNull, text |-> <<>>]
JsonValue(j) == [t |-> "json", json |-> j, text |-> <<>>]
TextValue(s) == [t |-> "text", json |-> JNull, text |-> s]
\* The bool a TokenManager method returns.
BoolValue(b) == [t |-> "bool", json |-> JBool(b), text |-> <<>>]

\* How an operation ends.
NoOut == [kind |-> "none", exc |-> "", message |-> <<>>, value |-> NoValue]
Return(v) == [kind |-> "return", exc |-> "", message |-> <<>>, value |-> v]
Raise(exc, message) == [kind |-> "raise", exc |-> exc, message |-> message, value |-> NoValue]

IsErrorStatus_Above400(status_code) == status_code > 400

\* The status threshold of every operation: status_code >= 400 raises.
IsErrorStatus(status_code) == status_code >= 400

\* try: return response.json() / except json.JSONDecodeError: return text.
DecodeBody(text) ==
    IF JsonLoads(text) # None THEN Return(JsonValue(Val(JsonLoads(text))))
    ELSE Return(TextValue(text))

\* The tail shared by every public operation: check the status, then decode.
HandleResponse(response) ==
    IF IsErrorStatus(response.status_code)
    THEN Raise("Exception",
               <<"HTTP ">> \o IntToStr(response.status_code) \o <<": ">>
                   \o Text(response.content))
    ELSE DecodeBody(Text(response.content))

(***************************************************************************)
(* Idle values of the API-client state                                     *)
(***************************************************************************)
NoClient ==
    [ class |-> "none", base_url |-> <<>>, token |-> <<>>, api_key |-> <<>>,
      api_secret |-> <<>>, auth_header_name |-> "", auth_header_format |-> <<>> ]

\* now and nonce are what time.time() and uuid.uuid4() hold for the operation.
NoOp ==
    [ name |-> "none", method |-> <<>>, url |-> <<>>, data |-> DNone,
      params |-> DNone, auth_type |-> "", now |-> 0, nonce |-> <<>> ]

NoSig ==
    [ scheme |-> "none", method |-> <<>>, path |-> <<>>, body |-> <<>>,
      timestamp |-> <<>>, nonce |-> <<>>, sign_text |-> <<>>, signature |-> <<>> ]

\* No TokenManager has been constructed.
NoManager ==
    [ base_url |-> <<>>, current_token |-> <<>>, refresh_url |-> None,
      refresh_interval |-> 0, last_refresh_time |-> 0 ]

\* No thread is inside the client.  ref is the thread that calls
\* refresh_token, req the thread that calls the request operations.
NoThreads ==
    [ ref |-> [pc |-> "idle", new_token |-> <<>>, started |-> 0, returned |-> 0,
               last_returned |-> <<>>],
      req |-> [pc |-> "idle", token |-> <<>>, quiet |-> FALSE, cred |-> <<>>] ]

(***************************************************************************)
(* Transport configuration: construction and use of one HttpClient         *)
(***************************************************************************)
MaxProxyLen == 4

ProxyAlphabet == {"h", ":", "0", "8", "-"}

StringsUpTo(alphabet, n) == UNION {[1..k -> alphabet] : k \in 0..n}

ProxyAddresses == {None} \cup {Some(s) : s \in StringsUpTo(ProxyAlphabet, MaxProxyLen)}

\* Optional[int] timeouts in milliseconds.
TimeoutOptions == {None, Some(0), Some(1500)}

Options ==
    { HttpClientOption(NoHeaders, p, st, ct, ssl) :
        p \in ProxyAddresses, st \in TimeoutOptions, ct \in TimeoutOptions,
        ssl \in BOOLEAN }

Urls == { <<"https://", "h", "/", "a">>, <<"http://", "h", "/", "a">> }

Payloads == { DNone, DStr(<<"x">>), DDict(<<>>), DDict(<< <<<<"a">>, <<"1">>>> >>) }

ConfigInit ==
    /\ http = Unbuilt
    /\ sent = <<>>
    /\ cli = NoClient
    /\ op = NoOp
    /\ resp = None
    /\ out = NoOut
    /\ sig = NoSig
    /\ thr = NoThreads
    /\ mgr = NoManager

\* HttpClient(option).
Construct ==
    /\ http.status = "unbuilt"
    /\ \E option \in Options : http' = HttpClientInit(option)
    /\ sent' = <<>>
    /\ UNCHANGED apiVars

CallGet ==
    /\ http.status = "ok"
    /\ \E url \in Urls : sent' = <<HttpGet(http, url, NoHeaders)>>
    /\ UNCHANGED <<http, apiVars>>

CallPostJson ==
    /\ http.status = "ok"
    /\ \E url \in Urls, data \in Payloads :
          sent' = <<HttpPostJson(http, url, data, NoHeaders)>>
    /\ UNCHANGED <<http, apiVars>>

CallPostForm ==
    /\ http.status = "ok"
    /\ \E url \in Urls, data \in Payloads :
          sent' = <<HttpPostForm(http, url, data, NoHeaders)>>
    /\ UNCHANGED <<http, apiVars>>

CallGetJson ==
    /\ http.status = "ok"
    /\ \E url \in Urls, data \in Payloads :
          sent' = <<HttpGetJson(http, url, data)>>
    /\ UNCHANGED <<http, apiVars>>

CallUploadFiles ==
    /\ http.status = "ok"
    /\ \E url \in Urls, files \in {<<>>, <<"f">>} :
          sent' = <<HttpUploadFiles(http, url, files)>>
    /\ UNCHANGED <<http, apiVars>>

ConfigNext ==
    \/ Construct
    \/ CallGet
    \/ CallPostJson
    \/ CallPostForm
    \/ CallGetJson
    \/ CallUploadFiles

SpecConfig == ConfigInit /\ [][ConfigNext]_vars

(* C7: HttpClient construction with a proxy address present succeeds only   *)
(* when the address parses into exactly a host and a positive integer port; *)
(* for every other proxy string construction fails.                         *)
WellFormedProxy(addr) ==
    LET parts == Split(addr, ":") IN
    /\ Len(parts) = 2
    /\ ParseInt(parts[2]) # None
    /\ Val(ParseInt(parts[2])) > 0

C7_ProxyHostAndPositivePort ==
    (http.status # "unbuilt" /\ TruthyStr(Val(http.option).proxy_address)) =>
        (http.status = "ok" <=> WellFormedProxy(Val(Val(http.option).proxy_address)))

(* C8: with ignore_ssl true, every request (http:// and https://) is served *)
(* by an adapter that has hostname checking and certificate verification    *)
(* disabled and that also carries the fixed pool settings (200, 20, 3).     *)
C8_IgnoreSslAdapterServes ==
    \A i \in 1..Len(sent) :
        (http.status = "ok" /\ Val(http.option).ignore_ssl) =>
            /\ sent[i].adapter.check_hostname = FALSE
            /\ sent[i].adapter.verify_mode = "CERT_NONE"
            /\ sent[i].adapter.pool_connections = 200
            /\ sent[i].adapter.pool_maxsize = 20
            /\ sent[i].adapter.max_retries = 3

(* C9: every transport operation passes a (connect, read) timeout pair in   *)
(* which each component is 60000 ms when its option is unset and is the     *)
(* configured millisecond value whenever one was configured.                *)
ConfiguredOrDefaultMs(o) == IF o = None THEN 60000 ELSE Val(o)

C9_TimeoutPair ==
    \A i \in 1..Len(sent) :
        http.status = "ok" =>
            /\ InMs(sent[i].timeout[1]) = ConfiguredOrDefaultMs(Val(http.option).connect_timeout)
            /\ InMs(sent[i].timeout[2]) = ConfiguredOrDefaultMs(Val(http.option).socket_timeout)

(***************************************************************************)
(* URLs                                                                    *)
(***************************************************************************)
\* A URL is a scheme element ("https://" or "http://") followed by the
\* characters of the rest.
Schemes == {"https://", "http://"}

\* base_url.rstrip('/') + '/'.
NormalizeBase(base_url) == RStrip(base_url, "/") \o <<"/">>

\* The index of the first c in s, or Len(s) + 1.
FirstIndex(s, c) ==
    IF \E i \in 1..Len(s) : s[i] = c
    THEN CHOOSE i \in 1..Len(s) : s[i] = c /\ \A j \in 1..(i - 1) : s[j] # c
    ELSE Len(s) + 1

\* urlparse of a reference: its path is what precedes the first "?" or "#";
\* the query and the fragment are kept together as its suffix.
RefPath(url) ==
    LET q == FirstIndex(url, "?")
        f == FirstIndex(url, "#")
    IN  SubSeq(url, 1, (IF q < f THEN q ELSE f) - 1)

RefSuffix(url) == SubSeq(url, Len(RefPath(url)) + 1, Len(url))

\* segments[1:-1] = filter(None, segments[1:-1]): the empty segments between
\* the first and the last are dropped.
FilterInner(segments) ==
    IF Len(segments) <= 2 THEN segments
    ELSE <<Head(segments)>>
         \o SelectSeq(SubSeq(segments, 2, Len(segments) - 1), LAMBDA g : g # <<>>)
         \o <<segments[Len(segments)]>>

\* The loop of urljoin over the segments: ".." removes the last resolved
\* segment (if there is one), "." is skipped, anything else is appended.
RECURSIVE ResolveDots(_, _)
ResolveDots(segments, resolved) ==
    IF segments = <<>> THEN resolved
    ELSE IF Head(segments) = <<".", ".">>
    THEN ResolveDots(Tail(segments),
                     IF resolved = <<>> THEN <<>>
                     ELSE SubSeq(resolved, 1, Len(resolved) - 1))
    ELSE IF Head(segments) = <<".">> THEN ResolveDots(Tail(segments), resolved)
    ELSE ResolveDots(Tail(segments), Append(resolved, Head(segments)))

\* sep.join(parts).
RECURSIVE Join(_, _)
Join(parts, sep) ==
    IF parts = <<>> THEN <<>>
    ELSE IF Len(parts) = 1 THEN parts[1]
    ELSE parts[1] \o <<sep>> \o Join(Tail(parts), sep)

\* The segments urljoin resolves: those of the url's path, after those of the
\* directory of the base's path unless the url's path starts at the root.
UrlJoinSegments(bpath, path) ==
    LET bsplit == Split(bpath, "/")
        base_parts == IF bsplit[Len(bsplit)] # <<>>
                      THEN SubSeq(bsplit, 1, Len(bsplit) - 1) ELSE bsplit
    IN  IF Head(path) = "/" THEN Split(path, "/")
        ELSE FilterInner(base_parts \o Split(path, "/"))

\* resolved_path of urljoin: a last segment "." or ".." leaves a trailing "/".
UrlJoinResolved(segments) ==
    IF segments[Len(segments)] \in {<<".">>, <<".", ".">>}
    THEN Append(ResolveDots(segments, <<>>), <<>>) ELSE ResolveDots(segments, <<>>)

\* '/'.join(resolved_path) or '/', which urlunparse roots after a host.
UrlJoinRooted(joined) ==
    IF joined = <<>> THEN <<"/">>
    ELSE IF Head(joined) # "/" THEN <<"/">> \o joined ELSE joined

\* urllib.parse.urljoin(base, url) for a base with a scheme and a host.  A
\* url with its own scheme and host replaces the base; a url with no path
\* keeps the base's path; otherwise the url's path is resolved against the
\* directory of the base's path, "." and ".." segments included.  (A
\* reference such as "a:b", whose first segment reads as a scheme, is
\* outside RelativeUrls.)
UrlJoin(base, url) ==
    IF base = <<>> THEN url
    ELSE IF url = <<>> THEN base
    ELSE IF Head(url) \in Schemes THEN url
    ELSE
    LET brest == Tail(base)
        bhier == RefPath(brest)
        bquery == SubSeq(brest, Len(bhier) + 1, FirstIndex(brest, "#") - 1)
        slash == FirstIndex(bhier, "/")
        netloc == SubSeq(bhier, 1, slash - 1)
        bpath == SubSeq(bhier, slash, Len(bhier))
        path == RefPath(url)
        suffix == RefSuffix(url)
    IN  IF path = <<>>
        THEN <<Head(base)>> \o netloc \o bpath
                 \o (IF Head(suffix) = "?" THEN <<>> ELSE bquery) \o suffix
        ELSE <<Head(base)>> \o netloc
                 \o UrlJoinRooted(Join(UrlJoinResolved(UrlJoinSegments(bpath, path)), "/"))
                 \o suffix

\* urljoin(self.base_url, url.lstrip('/')).
FullUrl(client, url) == UrlJoin(client.base_url, LStrip(url, "/"))

\* parsed_url.path, then "?" + parsed_url.query when the query is not empty.
PathWithQuery(full_url) ==
    LET rest == Tail(full_url)
        frag == SubSeq(rest, 1, FirstIndex(rest, "#") - 1)
        start == FirstIndex(frag, "/")
        q == FirstIndex(frag, "?")
        path == IF start < q THEN SubSeq(frag, start, q - 1) ELSE <<>>
        query == SubSeq(frag, q + 1, Len(frag))
    IN  IF query # <<>> THEN path \o <<"?">> \o query ELSE path

(***************************************************************************)
(* Signature engine                                                        *)
(***************************************************************************)
\* hashlib.sha256(s.encode('utf-8')).hexdigest(): the digest of s, kept as a
\* term in s (distinct texts have distinct digests; no digest is empty).
Sha256Hex(s) == <<"sha256(">> \o s \o <<")">>

\* hmac.new(secret, text, hashlib.sha256).hexdigest(), kept as a term.
HmacSha256Hex(secret, text) == <<"hmac(">> \o secret \o <<",">> \o text \o <<")">>

\* The clock: time.time() read in milliseconds since the epoch.
\* int(time.time() * 1000) and int(time.time()).
TimestampMs(now) == IntToStr(now)
TimestampS(now) == IntToStr(now \div 1000)

(***************************************************************************)
(* OpenAPIKeyClient.py: OpenAPIKeyClient (scheme V1)                       *)
(***************************************************************************)
\* The names bound in the module's namespace by its import statements.
KeyClientModuleNames ==
    { "json", "hashlib", "hmac", "time", "uuid", "Dict", "Any", "Optional",
      "urljoin", "HttpClient", "HttpClientOption" }

\* OpenAPIKeyClient.__init__.  api_secret is a str or None (the annotation
\* is not enforced), kept as Some(str) or None.
KeyClientInit(base_url, api_key, api_secret) ==
    [ NoClient EXCEPT !.class = "OpenAPIKeyClient",
                      !.api_key = api_key,
                      !.api_secret = api_secret,
                      !.base_url = NormalizeBase(base_url) ]

KeyClientHttp == HttpClientInit(HttpClientOption(NoHeaders, None, None, None, TRUE))

\* self.api_secret.encode('utf-8') raises AttributeError when api_secret is
\* None.
SecretEncodeFails(client) == client.api_secret = None

\* OpenAPIKeyClient._generate_signature, when nothing inside its try raises.
GenerateSignature(client, text) == HmacSha256Hex(Val(client.api_secret), text)

\* The signing of _build_auth_headers: sign_text and what it is made of.
SigningV1(client, request_body, now, nonce) ==
    LET timestamp == TimestampMs(now)
        sign_text == client.api_key \o timestamp \o nonce \o request_body
    IN  [ scheme |-> "V1", method |-> <<>>, path |-> <<>>, body |-> request_body,
          timestamp |-> timestamp, nonce |-> nonce, sign_text |-> sign_text,
          signature |-> GenerateSignature(client, sign_text) ]

\* The header dictionary every signed request carries.
AuthHeaders_NoSignature(api_key, signing) ==
    [ NoHeaders EXCEPT !["X-Api-Key"] = Some(api_key),
                       !["X-Timestamp"] = Some(signing.timestamp),
                       !["X-Nonce"] = Some(signing.nonce),
                       !["Content-Type"] = Some(<<"application/json">>) ]

AuthHeaders(api_key, signing) ==
    [ NoHeaders EXCEPT !["X-Api-Key"] = Some(api_key),
                       !["X-Timestamp"] = Some(signing.timestamp),
                       !["X-Nonce"] = Some(signing.nonce),
                       !["X-Signature"] = Some(signing.signature),
                       !["Content-Type"] = Some(<<"application/json">>) ]

\* OpenAPIKeyClient._build_auth_headers.
BuildAuthHeaders(client, request_body, now, nonce) ==
    AuthHeaders(client.api_key, SigningV1(client, request_body, now, nonce))

\* What an operation does before the response: either it raises, or it
\* hands calls to the transport; signing is the signature it computed.
Failed(exc, signing) == [exc |-> Some(exc), calls |-> <<>>, signing |-> signing]
Called(call, signing) == [exc |-> None, calls |-> <<call>>, signing |-> signing]

\* An operation of OpenAPIKeyClient from _build_auth_headers on: an exception
\* inside _generate_signature is re-raised as RuntimeError and leaves the
\* operation before self.client is called.
SignedV1(client, call, signing) ==
    IF SecretEncodeFails(client) THEN Failed("RuntimeError", NoSig)
    ELSE Called(call, signing)

\* OpenAPIKeyClient.get.
KeyGet(client, hc, url, params, now, nonce) ==
    LET request_body == <<>> IN
    SignedV1(client, HttpGet(hc, FullUrl(client, url),
                   BuildAuthHeaders(client, request_body, now, nonce)),
           SigningV1(client, request_body, now, nonce))

\* OpenAPIKeyClient.post.
KeyPost(client, hc, url, data, now, nonce) ==
    LET request_body == JsonDumps(data) IN
    SignedV1(client, HttpPostJson(hc, FullUrl(client, url), data,
                        BuildAuthHeaders(client, request_body, now, nonce)),
           SigningV1(client, request_body, now, nonce))

\* OpenAPIKeyClient.post_form.
KeyPostForm(client, hc, url, data, now, nonce) ==
    LET request_body == JsonDumps(data) IN
    SignedV1(client, HttpPostForm(hc, FullUrl(client, url), data,
                        BuildAuthHeaders(client, request_body, now, nonce)),
           SigningV1(client, request_body, now, nonce))

(***************************************************************************)
(* OpenAPIKeyClient.py: OpenAPIKeyClientV2 (scheme V2)                     *)
(***************************************************************************)
\* timeout * 1000 if timeout else None.
TimeoutMsOption(timeout) == IF TruthyInt(timeout) THEN Some(Val(timeout) * 1000) ELSE None

\* OpenAPIKeyClientV2.__init__.
KeyClientV2Init(base_url, api_key, api_secret) ==
    [ NoClient EXCEPT !.class = "OpenAPIKeyClientV2",
                      !.api_key = api_key,
                      !.api_secret = api_secret,
                      !.base_url = NormalizeBase(base_url) ]

KeyClientV2Http(timeout, verify_ssl, proxy) ==
    HttpClientInit(HttpClientOption(
        [NoHeaders EXCEPT !["User-Agent"] = Some(<<"OpenAPI-Python-Client/1.0">>),
                          !["Accept"] = Some(<<"application/json">>)],
        proxy, TimeoutMsOption(timeout), TimeoutMsOption(timeout), ~verify_ssl))

BodyHash_AlwaysHashed(body) == Sha256Hex(IF body = None THEN <<>> ELSE Val(body))

\* body_hash of _generate_signature_v2.
BodyHash(body) == IF TruthyStr(body) THEN Sha256Hex(Val(body)) ELSE <<>>

\* sign_text of _generate_signature_v2.
SignTextV2(api_key, method, path, timestamp, nonce, body) ==
    Upper(method) \o path \o api_key \o timestamp \o nonce \o BodyHash(body)

\* OpenAPIKeyClientV2._generate_signature_v2.
GenerateSignatureV2(client, method, path, timestamp, nonce, body) ==
    HmacSha256Hex(Val(client.api_secret),
                  SignTextV2(client.api_key, method, path, timestamp, nonce, body))

\* The signing of _build_auth_headers_v2.
SigningV2(client, method, path, body, now, nonce) ==
    LET timestamp == TimestampS(now) IN
    [ scheme |-> "V2", method |-> method, path |-> path,
      body |-> IF body = None THEN <<>> ELSE Val(body),
      timestamp |-> timestamp, nonce |-> nonce,
      sign_text |-> SignTextV2(client.api_key, method, path, timestamp, nonce, body),
      signature |-> GenerateSignatureV2(client, method, path, timestamp, nonce, body) ]

\* OpenAPIKeyClientV2._build_auth_headers_v2.
BuildAuthHeadersV2(client, method, path, body, now, nonce) ==
    AuthHeaders(client.api_key, SigningV2(client, method, path, body, now, nonce))

M_GET == <<"G", "E", "T">>
M_POST == <<"P", "O", "S", "T">>
M_PUT == <<"P", "U", "T">>
M_DELETE == <<"D", "E", "L", "E", "T", "E">>

\* OpenAPIKeyClientV2.request.  The name urlparse is looked up in the
\* module's namespace when line 341 runs; an unbound name raises NameError.
KeyV2Request(client, hc, method, url, data, params, now, nonce) ==
    LET full_url == FullUrl(client, url) IN
    IF "urlparse" \notin KeyClientModuleNames THEN Failed("NameError", NoSig)
    ELSE IF SecretEncodeFails(client) THEN Failed("AttributeError", NoSig)
    ELSE
    LET path == PathWithQuery(full_url)
        request_body == IF data.t # "none" THEN JsonDumps(data) ELSE <<>>
        signing == SigningV2(client, method, path, Some(request_body), now, nonce)
        auth_headers == BuildAuthHeadersV2(client, method, path, Some(request_body), now, nonce)
    IN  IF Upper(method) = M_GET
        THEN Called(HttpGet(hc, full_url, auth_headers), signing)
        ELSE IF Upper(method) = M_POST
        THEN Called(HttpPostJson(hc, full_url, data, auth_headers), signing)
        ELSE IF Upper(method) = M_PUT
        THEN Called(HttpPostJson(hc, full_url, data, auth_headers), signing)
        ELSE IF Upper(method) = M_DELETE
        THEN Called(HttpGet(hc, full_url, auth_headers), signing)
        ELSE Failed("ValueError", signing)

(***************************************************************************)
(* OpenAPITokenClient.py: OpenAPITokenClient                               *)
(***************************************************************************)
\* OpenAPITokenClient.__init__.
TokenClientInit(base_url, token) ==
    [ NoClient EXCEPT !.class = "OpenAPITokenClient",
                      !.token = token,
                      !.base_url = NormalizeBase(base_url) ]

TokenClientHttp(token) ==
    HttpClientInit(HttpClientOption(Hdr("token", token), None, None, None, TRUE))

\* OpenAPITokenClient.get.
TokenGet(client, hc, url, params) ==
    Called(HttpGet(hc, FullUrl(client, url), NoHeaders), NoSig)

\* OpenAPITokenClient.post.
TokenPost(client, hc, url, data) ==
    Called(HttpPostJson(hc, FullUrl(client, url), data, NoHeaders), NoSig)

\* OpenAPITokenClient.post_form.
TokenPostForm(client, hc, url, data) ==
    Called(HttpPostForm(hc, FullUrl(client, url), data, NoHeaders), NoSig)

\* OpenAPITokenClient.put.
TokenPut(client, hc, url, data) ==
    Called(HttpPostJson(hc, FullUrl(client, url), data,
                        Hdr("X-HTTP-Method-Override", M_PUT)), NoSig)

\* OpenAPITokenClient.delete.
TokenDelete(client, hc, url) ==
    Called(HttpGet(hc, FullUrl(client, url),
                   Hdr("X-HTTP-Method-Override", M_DELETE)), NoSig)

(***************************************************************************)
(* OpenAPITokenClient.py: OpenAPITokenClientV2                             *)
(***************************************************************************)
\* auth_header_format.format(token): every "{}" element is replaced.
RECURSIVE Format(_, _)
Format(fmt, arg) ==
    IF fmt = <<>> THEN <<>>
    ELSE (IF Head(fmt) = "{}" THEN arg ELSE <<Head(fmt)>>) \o Format(Tail(fmt), arg)

\* base64.b64encode(token.encode()).decode(), kept as a term in the token.
B64Encode(s) == <<"b64(">> \o s \o <<")">>

\* OpenAPITokenClientV2.__init__ (the parent's __init__ is not called).
TokenClientV2Init(base_url, token, auth_header_name, auth_header_format) ==
    [ NoClient EXCEPT !.class = "OpenAPITokenClientV2",
                      !.token = token,
                      !.base_url = NormalizeBase(base_url),
                      !.auth_header_name = auth_header_name,
                      !.auth_header_format = auth_header_format ]

TokenClientV2Http(token, timeout, verify_ssl, proxy, auth_header_name, auth_header_format) ==
    HttpClientInit(HttpClientOption(
        Update(Hdr(auth_header_name, Format(auth_header_format, token)),
               [NoHeaders EXCEPT !["User-Agent"] = Some(<<"OpenAPI-Token-Client/1.0">>),
                                 !["Accept"] = Some(<<"application/json">>)]),
        proxy, TimeoutMsOption(timeout), TimeoutMsOption(timeout), ~verify_ssl))

\* The two assignments of refresh_token, in their order.
RefreshSetToken(client, new_token) == [client EXCEPT !.token = new_token]

RefreshSetHeader_Skipped(client, hc, new_token) == hc

RefreshSetHeader(client, hc, new_token) ==
    [hc EXCEPT !.headers[client.auth_header_name] =
                   Some(Format(client.auth_header_format, new_token))]

\* The headers get_with_auth_type builds from self.token.
AuthTypeHeaders(token, auth_type) ==
    IF auth_type = "bearer" THEN Hdr("Authorization", <<"Bearer ">> \o token)
    ELSE IF auth_type = "basic" THEN Hdr("Authorization", <<"Basic ">> \o B64Encode(token))
    ELSE Hdr("token", token)

\* OpenAPITokenClientV2.get_with_auth_type.
TokenV2GetWithAuthType(client, hc, url, auth_type) ==
    Called(HttpGet(hc, FullUrl(client, url), AuthTypeHeaders(client.token, auth_type)),
           NoSig)

\* data or {}.
DataOrEmpty(data) ==
    IF data.t = "none" \/ (data.t = "dict" /\ data.items = <<>>) THEN DDict(<<>>) ELSE data

\* OpenAPITokenClientV2.request.
TokenV2Request(client, hc, method, url, data, params) ==
    LET full_url == FullUrl(client, url) IN
    IF Upper(method) = M_GET
    THEN Called(HttpGet(hc, full_url, NoHeaders), NoSig)
    ELSE IF Upper(method) = M_POST
    THEN Called(HttpPostJson(hc, full_url, DataOrEmpty(data), NoHeaders), NoSig)
    ELSE IF Upper(method) = M_PUT
    THEN Called(HttpPostJson(hc, full_url, DataOrEmpty(data),
                             Hdr("X-HTTP-Method-Override", M_PUT)), NoSig)
    ELSE IF Upper(method) = M_DELETE
    THEN Called(HttpGet(hc, full_url, Hdr("X-HTTP-Method-Override", M_DELETE)), NoSig)
    ELSE Failed("ValueError", NoSig)

(***************************************************************************)
(* Sequential use of the four clients: one public operation per step       *)
(***************************************************************************)
BaseUrls == { <<"https://", "h", "/", "v">>, <<"https://", "h", "/", "v", "/", "/">> }

\* The url argument of the operations: a plain path, paths with leading
\* slashes, and a path that begins with a ".." segment.
RelativeUrls == { <<"x">>, <<"/", "x">>, <<"/", "/", "x">>, <<".", ".", "/", "x">> }

Tokens == { <<"t", "0">>, <<"t", "1">>, <<"t", "2">> }

AuthHeaderNames == { "Authorization", "X-Auth" }

BearerFormat == <<"Bearer ", "{}">>

ApiKey == <<"k">>

ApiSecret == <<"s">>

\* The api_secret given at construction: a str, or None.
ApiSecrets == { Some(ApiSecret), None }

\* Each client object with the HttpClient it built.
Clients ==
    { <<TokenClientInit(b, <<"t", "0">>), TokenClientHttp(<<"t", "0">>)>> : b \in BaseUrls }
    \cup { <<TokenClientV2Init(b, <<"t", "0">>, n, BearerFormat),
             TokenClientV2Http(<<"t", "0">>, Some(30), TRUE, None, n, BearerFormat)>> :
             b \in BaseUrls, n \in AuthHeaderNames }
    \cup { <<KeyClientInit(b, ApiKey, s), KeyClientHttp>> : b \in BaseUrls, s \in ApiSecrets }
    \cup { <<KeyClientV2Init(b, ApiKey, s), KeyClientV2Http(Some(30), TRUE, None)>> :
             b \in BaseUrls, s \in ApiSecrets }

Dicts == { DDict(<<>>), DDict(<< <<<<"a">>, <<"1">>>> >>) }

OptionalDicts == Dicts \cup {DNone}

Methods ==
    { M_GET, M_POST, M_PUT, M_DELETE, <<"p", "u", "t">>, <<"d", "e", "l", "e", "t", "e">>,
      <<"P", "A", "T", "C", "H">> }

AuthTypes == { "token", "bearer", "basic" }

\* Readings of the clock in milliseconds, and values of uuid4().hex.
Clocks == { 1999, 2000 }

Nonces == { <<"n1">>, <<"n2">> }

ResponseContents ==
    { <<"{", "\"", "a", "\"", ":", "1", "}">>,
      <<"n", "o", "t", "-", "j", "s", "o", "n">>,
      <<"n", "o", "t", " ", "f", "o", "u", "n", "d">>,
      <<BadByte, "1">>,
      <<>> }

StatusCodes == { 200, 399, 400, 404 }

\* What the transport executor does with a call: it answers, or it raises.
Responses ==
    { [kind |-> "response", status_code |-> c, content |-> b] :
        c \in StatusCodes, b \in ResponseContents }
    \cup { [kind |-> "error", status_code |-> 0, content |-> <<>>] }

\* The end of an operation whose call the transport answered with r.
Finish(r) ==
    IF r.kind = "error" THEN Raise("ConnectionError", <<>>) ELSE HandleResponse(r)

\* One whole public operation, called while no operation is running: what it
\* did before the response (did), then the transport's answer and the result.
Run(operation, did) ==
    /\ out.kind = "none"
    /\ op' = operation
    /\ sent' = did.calls
    /\ sig' = did.signing
    /\ IF did.exc # None
       THEN resp' = None /\ out' = Raise(Val(did.exc), <<>>)
       ELSE \E r \in Responses : resp' = Some(r) /\ out' = Finish(r)
    /\ UNCHANGED <<cli, http, thr, mgr>>

IsTokenClient == cli.class \in {"OpenAPITokenClient", "OpenAPITokenClientV2"}

RequestInit ==
    /\ \E c \in Clients : cli = c[1] /\ http = c[2]
    /\ sent = <<>>
    /\ op = NoOp
    /\ resp = None
    /\ out = NoOut
    /\ sig = NoSig
    /\ thr = NoThreads
    /\ mgr = NoManager

DoTokenGet ==
    /\ IsTokenClient
    /\ \E url \in RelativeUrls, params \in OptionalDicts :
          Run([NoOp EXCEPT !.name = "get", !.method = M_GET, !.url = url, !.params = params],
              TokenGet(cli, http, url, params))

DoTokenPost ==
    /\ IsTokenClient
    /\ \E url \in RelativeUrls, data \in Dicts :
          Run([NoOp EXCEPT !.name = "post", !.method = M_POST, !.url = url, !.data = data],
              TokenPost(cli, http, url, data))

DoTokenPostForm ==
    /\ IsTokenClient
    /\ \E url \in RelativeUrls, data \in Dicts :
          Run([NoOp EXCEPT !.name = "post_form", !.method = M_POST, !.url = url, !.data = data],
              TokenPostForm(cli, http, url, data))

DoTokenPut ==
    /\ IsTokenClient
    /\ \E url \in RelativeUrls, data \in Dicts :
          Run([NoOp EXCEPT !.name = "put", !.method = M_PUT, !.url = url, !.data = data],
              TokenPut(cli, http, url, data))

DoTokenDelete ==
    /\ IsTokenClient
    /\ \E url \in RelativeUrls :
          Run([NoOp EXCEPT !.name = "delete", !.method = M_DELETE, !.url = url],
              TokenDelete(cli, http, url))

DoTokenV2GetWithAuthType ==
    /\ cli.class = "OpenAPITokenClientV2"
    /\ \E url \in RelativeUrls, auth_type \in AuthTypes :
          Run([NoOp EXCEPT !.name = "get_with_auth_type", !.method = M_GET, !.url = url,
                           !.auth_type = auth_type],
              TokenV2GetWithAuthType(cli, http, url, auth_type))

DoTokenV2Request ==
    /\ cli.class = "OpenAPITokenClientV2"
    /\ \E method \in Methods, url \in RelativeUrls, data \in OptionalDicts,
          params \in OptionalDicts :
          Run([NoOp EXCEPT !.name = "request", !.method = method, !.url = url, !.data = data,
                           !.params = params],
              TokenV2Request(cli, http, method, url, data, params))

DoKeyGet ==
    /\ cli.class = "OpenAPIKeyClient"
    /\ \E url \in RelativeUrls, params \in OptionalDicts, now \in Clocks, nonce \in Nonces :
          Run([NoOp EXCEPT !.name = "get", !.method = M_GET, !.url = url, !.params = params,
                           !.now = now, !.nonce = nonce],
              KeyGet(cli, http, url, params, now, nonce))

DoKeyPost ==
    /\ cli.class = "OpenAPIKeyClient"
    /\ \E url \in RelativeUrls, data \in Dicts, now \in Clocks, nonce \in Nonces :
          Run([NoOp EXCEPT !.name = "post", !.method = M_POST, !.url = url, !.data = data,
                           !.now = now, !.nonce = nonce],
              KeyPost(cli, http, url, data, now, nonce))

DoKeyPostForm ==
    /\ cli.class = "OpenAPIKeyClient"
    /\ \E url \in RelativeUrls, data \in Dicts, now \in Clocks, nonce \in Nonces :
          Run([NoOp EXCEPT !.name = "post_form", !.method = M_POST, !.url = url, !.data = data,
                           !.now = now, !.nonce = nonce],
              KeyPostForm(cli, http, url, data, now, nonce))

DoKeyV2Request ==
    /\ cli.class = "OpenAPIKeyClientV2"
    /\ \E method \in Methods, url \in RelativeUrls, data \in OptionalDicts,
          params \in OptionalDicts, now \in Clocks, nonce \in Nonces :
          Run([NoOp EXCEPT !.name = "request", !.method = method, !.url = url, !.data = data,
                           !.params = params, !.now = now, !.nonce = nonce],
              KeyV2Request(cli, http, method, url, data, params, now, nonce))

\* Control is back with the caller, who has the result; the next operation
\* may be called.
Returned ==
    /\ out.kind # "none"
    /\ op' = NoOp /\ sent' = <<>> /\ resp' = None /\ out' = NoOut /\ sig' = NoSig
    /\ UNCHANGED <<cli, http, thr, mgr>>

RequestNext ==
    \/ Returned
    \/ DoTokenGet
    \/ DoTokenPost
    \/ DoTokenPostForm
    \/ DoTokenPut
    \/ DoTokenDelete
    \/ DoTokenV2GetWithAuthType
    \/ DoTokenV2Request
    \/ DoKeyGet
    \/ DoKeyPost
    \/ DoKeyPostForm
    \/ DoKeyV2Request

SpecRequest == RequestInit /\ [][RequestNext]_vars

(***************************************************************************)
(* Credential rotation: refresh_token beside requests on one client        *)
(***************************************************************************)
MaxRefreshes == 2

RotateUrl == <<"x">>

RotateResponses ==
    { [kind |-> "response", status_code |-> 200,
       content |-> <<"{", "\"", "a", "\"", ":", "1", "}">>],
      [kind |-> "response", status_code |-> 404,
       content |-> <<"n", "o", "t", " ", "f", "o", "u", "n", "d">>] }

\* The operations of OpenAPITokenClientV2 a request thread may call.
RotateOps ==
    { [NoOp EXCEPT !.name = n, !.method = M_GET, !.url = RotateUrl] : n \in {"get"} }
    \cup { [NoOp EXCEPT !.name = n, !.method = M_POST, !.url = RotateUrl,
                        !.data = DDict(<<>>)] : n \in {"post", "post_form"} }
    \cup { [NoOp EXCEPT !.name = "put", !.method = M_PUT, !.url = RotateUrl,
                        !.data = DDict(<<>>)],
           [NoOp EXCEPT !.name = "delete", !.method = M_DELETE, !.url = RotateUrl] }
    \cup { [NoOp EXCEPT !.name = "request", !.method = m, !.url = RotateUrl] :
             m \in {M_GET, M_POST, M_PUT, M_DELETE} }
    \cup { [NoOp EXCEPT !.name = "get_with_auth_type", !.method = M_GET,
                        !.url = RotateUrl, !.auth_type = a] : a \in AuthTypes }

\* The operation o run on client object client and HttpClient hc.
Dispatch(client, hc, o) ==
    IF o.name = "get" THEN TokenGet(client, hc, o.url, o.params)
    ELSE IF o.name = "post" THEN TokenPost(client, hc, o.url, o.data)
    ELSE IF o.name = "post_form" THEN TokenPostForm(client, hc, o.url, o.data)
    ELSE IF o.name = "put" THEN TokenPut(client, hc, o.url, o.data)
    ELSE IF o.name = "delete" THEN TokenDelete(client, hc, o.url)
    ELSE IF o.name = "request"
    THEN TokenV2Request(client, hc, o.method, o.url, o.data, o.params)
    ELSE TokenV2GetWithAuthType(client, hc, o.url, o.auth_type)

RotateInit ==
    /\ \E n \in AuthHeaderNames :
          /\ cli = TokenClientV2Init(<<"https://", "h", "/", "v">>, <<"t", "0">>, n, BearerFormat)
          /\ http = TokenClientV2Http(<<"t", "0">>, Some(30), TRUE, None, n, BearerFormat)
    /\ sent = <<>>
    /\ op = NoOp
    /\ resp = None
    /\ out = NoOut
    /\ sig = NoSig
    /\ thr = NoThreads
    /\ mgr = NoManager

\* refresh_token(new_token) is called and runs self.token = new_token.  A
\* request that has started and not yet sent is no longer a request that
\* ran with no refresh beside it.
RefreshAssignToken ==
    /\ thr.ref.pc = "idle"
    /\ thr.ref.started < MaxRefreshes
    /\ \E new_token \in Tokens :
          /\ cli' = RefreshSetToken(cli, new_token)
          /\ thr' = [thr EXCEPT !.ref.pc = "set_header",
                                !.ref.new_token = new_token,
                                !.ref.started = @ + 1,
                                !.req.quiet = IF thr.req.pc = "send" THEN FALSE ELSE @]
    /\ UNCHANGED <<http, sent, op, resp, out, sig, mgr>>

\* refresh_token runs self.client.session.headers[name] = value and returns.
RefreshAssignHeader ==
    /\ thr.ref.pc = "set_header"
    /\ http' = RefreshSetHeader(cli, http, thr.ref.new_token)
    /\ thr' = [thr EXCEPT !.ref.pc = "idle",
                          !.ref.returned = @ + 1,
                          !.ref.last_returned = thr.ref.new_token]
    /\ UNCHANGED <<cli, sent, op, resp, out, sig, mgr>>

\* A request operation is called and runs up to its call of self.client:
\* get_with_auth_type has read self.token into its headers by then.
RequestStart ==
    /\ thr.req.pc = "idle"
    /\ \E o \in RotateOps : op' = o
    /\ thr' = [thr EXCEPT !.req.pc = "send",
                          !.req.token = cli.token,
                          !.req.quiet = (thr.ref.pc = "idle" /\ thr.ref.returned >= 1),
                          !.req.cred = thr.ref.last_returned]
    /\ UNCHANGED <<cli, http, sent, resp, out, sig, mgr>>

\* The session merges its headers as they are now under the headers of the
\* call and sends; the operation ends with the transport's answer.
RequestSend ==
    /\ thr.req.pc = "send"
    /\ LET did == Dispatch([cli EXCEPT !.token = thr.req.token], http, op) IN
          /\ sent' = did.calls
          /\ \E r \in RotateResponses : resp' = Some(r) /\ out' = Finish(r)
    /\ thr' = [thr EXCEPT !.req.pc = "done"]
    /\ UNCHANGED <<cli, http, op, sig, mgr>>

\* The operation returns to its caller.
RequestReturn ==
    /\ thr.req.pc = "done"
    /\ op' = NoOp /\ sent' = <<>> /\ resp' = None /\ out' = NoOut
    /\ thr' = [thr EXCEPT !.req.pc = "idle"]
    /\ UNCHANGED <<cli, http, sig, mgr>>

RotateNext ==
    \/ RefreshAssignToken
    \/ RefreshAssignHeader
    \/ RequestStart
    \/ RequestSend
    \/ RequestReturn

SpecRotate == RotateInit /\ [][RotateNext]_vars

\* Header value v was derived from token t (as the raw token, through the
\* client's header format, as a Bearer value or as a Basic value).
DerivedFrom(v, t) ==
    v \in { Some(t), Some(Format(cli.auth_header_format, t)),
            Some(<<"Bearer ">> \o t), Some(<<"Basic ">> \o B64Encode(t)) }

\* The tokens from which some header of the call was derived.
TokensIn(call) ==
    { t \in Tokens : \E n \in HeaderNames : DerivedFrom(call.headers[n], t) }

(* C3: when refresh_token(new) runs concurrently with a request on the same *)
(* instance, the header set of that request holds credential-derived values *)
(* from the old token only or from the new token only, never from both.     *)
C3_NoMixedCredentials ==
    (thr.req.pc = "done" /\ Len(sent) = 1) => Cardinality(TokensIn(sent[1])) <= 1

(* C4: after refresh_token(new) has returned, every request started         *)
(* afterwards (and before another refresh begins) carries headers derived   *)
(* from the new token and no header derived from any earlier token, for any *)
(* sequence of earlier refreshes and requests.                              *)
C4_NewTokenOnly ==
    (thr.req.pc = "done" /\ thr.req.quiet /\ Len(sent) = 1) =>
        TokensIn(sent[1]) = {thr.req.cred}

C4_Witness ==
    /\ thr.req.pc = "done" /\ thr.req.quiet /\ Len(sent) = 1
    /\ thr.ref.returned = 2
    /\ op.name = "get_with_auth_type" /\ op.auth_type = "token"
    /\ cli.auth_header_name = "Authorization"
    /\ thr.req.cred = <<"t", "2">>
    /\ sent[1].headers["token"] = Some(<<"t", "2">>)
    /\ sent[1].headers["Authorization"] = Some(<<"Bearer ", "t", "2">>)

(***************************************************************************)
(* The signature functions called on their own                             *)
(***************************************************************************)
MaxBodyLen == 2

BodyAlphabet == {"{", "}"}

\* The body argument: None, "" (also the default) or a non-empty str.
SignBodies == {None} \cup {Some(s) : s \in StringsUpTo(BodyAlphabet, MaxBodyLen)}

SignPaths == { <<"/", "v", "/", "x">>, <<"/", "v", "/", "x", "?", "q", "=", "1">> }

SignTimestamps == { <<"1">>, <<"2">> }

SignInit ==
    /\ \E c \in { <<KeyClientInit(<<"https://", "h", "/", "v">>, ApiKey, Some(ApiSecret)),
                     KeyClientHttp>>,
                   <<KeyClientV2Init(<<"https://", "h", "/", "v">>, ApiKey, Some(ApiSecret)),
                     KeyClientV2Http(Some(30), TRUE, None)>> } :
          cli = c[1] /\ http = c[2]
    /\ sent = <<>>
    /\ op = NoOp
    /\ resp = None
    /\ out = NoOut
    /\ sig = NoSig
    /\ thr = NoThreads
    /\ mgr = NoManager

\* OpenAPIKeyClient._generate_signature(text).
CallGenerateSignature ==
    /\ cli.class = "OpenAPIKeyClient"
    /\ \E text \in StringsUpTo(BodyAlphabet \cup {"k"}, MaxBodyLen) :
          sig' = [NoSig EXCEPT !.scheme = "V1", !.sign_text = text,
                               !.signature = GenerateSignature(cli, text)]
    /\ UNCHANGED <<http, sent, cli, op, resp, out, thr, mgr>>

\* OpenAPIKeyClientV2._generate_signature_v2(method, path, timestamp, nonce, body).
CallGenerateSignatureV2 ==
    /\ cli.class = "OpenAPIKeyClientV2"
    /\ \E method \in Methods, path \in SignPaths, timestamp \in SignTimestamps,
          nonce \in Nonces, body \in SignBodies :
          sig' = [ scheme |-> "V2", method |-> method, path |-> path,
                   body |-> IF body = None THEN <<>> ELSE Val(body),
                   timestamp |-> timestamp, nonce |-> nonce,
                   sign_text |-> SignTextV2(cli.api_key, method, path, timestamp, nonce, body),
                   signature |-> GenerateSignatureV2(cli, method, path, timestamp, nonce, body) ]
    /\ UNCHANGED <<http, sent, cli, op, resp, out, thr, mgr>>

SignNext ==
    \/ CallGenerateSignature
    \/ CallGenerateSignatureV2

SpecSign == SignInit /\ [][SignNext]_vars

(* C10: in the V2 scheme an absent or empty body contributes the empty      *)
(* string as bodyHash to the signing input (UPPERCASE(method) + path + key  *)
(* + timestamp + nonce), not the SHA-256 hex digest of the empty string;    *)
(* every non-empty body contributes its SHA-256 hex digest.                 *)
C10_Prefix == Upper(sig.method) \o sig.path \o cli.api_key \o sig.timestamp \o sig.nonce

C10_EmptyBodyEmptyHash ==
    sig.scheme = "V2" =>
        /\ sig.body = <<>> =>
              /\ sig.sign_text = C10_Prefix
              /\ sig.sign_text # C10_Prefix \o Sha256Hex(<<>>)
        /\ sig.body # <<>> => sig.sign_text = C10_Prefix \o Sha256Hex(sig.body)
        /\ sig.signature = HmacSha256Hex(Val(cli.api_secret), sig.sign_text)

C10_Witness ==
    /\ sig.scheme = "V2"
    /\ sig.method = <<"p", "u", "t">>
    /\ sig.body = <<>>
    /\ sig.sign_text = <<"P", "U", "T", "/", "v", "/", "x", "k", "1", "n1">>

\* An operation has ended (with a value or an exception).
Ended == out.kind # "none"

(* C1: for every client and every request whose logical method is PUT or    *)
(* DELETE, the call handed to the transport is a POST (for PUT) or a GET    *)
(* (for DELETE) whose X-HTTP-Method-Override header is the logical method.  *)
C1_MethodOverride ==
    (Ended /\ op.name \in {"put", "delete", "request"}
           /\ Upper(op.method) \in {M_PUT, M_DELETE}) =>
        /\ Len(sent) = 1
        /\ sent[1].verb = (IF Upper(op.method) = M_PUT THEN "POST" ELSE "GET")
        /\ sent[1].headers["X-HTTP-Method-Override"] = Some(Upper(op.method))

(* C2: for every signed operation, the body that enters the signing input   *)
(* is exactly the body the transport is given to send, and is the empty     *)
(* string exactly when no body is sent.                                     *)
BodySent(call) == IF call.body = None THEN <<>> ELSE Val(call.body)

C2_SignedBodyIsSentBody ==
    (Ended /\ sig.scheme # "none" /\ Len(sent) = 1) => sig.body = BodySent(sent[1])

(* C5: request(method, ...) with a method other than GET, POST, PUT, DELETE *)
(* (case-insensitive) fails with ValueError and no call reaches the         *)
(* transport.                                                               *)
C5_UnsupportedMethodValueError ==
    (Ended /\ op.name = "request"
           /\ Upper(op.method) \notin {M_GET, M_POST, M_PUT, M_DELETE}) =>
        /\ out.kind = "raise"
        /\ out.exc = "ValueError"
        /\ sent = <<>>

(* C6: for every operation and every transport response, a status of 400 or *)
(* more ends in an error carrying the status code and the body text; a      *)
(* status below 400 ends in the decoded JSON value when the body is valid   *)
(* JSON and in the raw body text otherwise, never in an error.              *)
\* The response texts that are valid JSON, with their values.
C6_Decoded(text) ==
    IF text = <<"{", "\"", "a", "\"", ":", "1", "}">>
    THEN Some(JObj(<< <<<<"a">>, JNum(1)>> >>))
    ELSE IF text = <<"1">> THEN Some(JNum(1))
    ELSE None

C6_ResponseText == SelectSeq(Val(resp).content, LAMBDA c : c # BadByte)

C6_StatusAndBody ==
    (Ended /\ resp # None /\ Val(resp).kind = "response") =>
        IF Val(resp).status_code >= 400
        THEN /\ out.kind = "raise"
             /\ out.message = <<"HTTP ">> \o IntToStr(Val(resp).status_code)
                                  \o <<": ">> \o C6_ResponseText
        ELSE /\ out.kind = "return"
             /\ IF C6_Decoded(C6_ResponseText) # None
                THEN out.value = JsonValue(Val(C6_Decoded(C6_ResponseText)))
                ELSE out.value = TextValue(C6_ResponseText)

C6_Witness ==
    /\ Ended /\ resp # None
    /\ cli.class = "OpenAPIKeyClient" /\ op.name = "post_form"
    /\ Val(resp).status_code = 399
    /\ Val(resp).content = <<"n", "o", "t", "-", "j", "s", "o", "n">>
    /\ out = Return(TextValue(<<"n", "o", "t", "-", "j", "s", "o", "n">>))

(* C11: for every OpenAPIKeyClientV2.request call with a supported method,  *)
(* the method component of the V2 signing input is the upper-cased logical  *)
(* method given by the caller, never the verb used on the transport.        *)
C11_LogicalMethodSigned ==
    (Ended /\ cli.class = "OpenAPIKeyClientV2" /\ op.name = "request"
           /\ Upper(op.method) \in {M_GET, M_POST, M_PUT, M_DELETE}) =>
        /\ sig.scheme = "V2"
        /\ sig.method = op.method
        /\ Len(sig.sign_text) >= Len(op.method)
        /\ SubSeq(sig.sign_text, 1, Len(op.method)) = Upper(op.method)

(* C12: for every signed request, a header name set both by the auth header *)
(* builder and by a static or transport-default header (the Content-Type of *)
(* post_json and post_form included) is sent with the auth builder's value. *)
\* The value the auth header builder gives to header n in this operation.
C12_AuthValue(n) ==
    IF n = "X-Api-Key" THEN Some(cli.api_key)
    ELSE IF n = "X-Timestamp" THEN Some(sig.timestamp)
    ELSE IF n = "X-Nonce" THEN Some(sig.nonce)
    ELSE IF n = "X-Signature" THEN Some(sig.signature)
    ELSE IF n = "Content-Type" THEN Some(<<"application/json">>)
    ELSE None

C12_AuthHeadersWin ==
    (Ended /\ sig.scheme # "none") =>
        \A i \in 1..Len(sent), n \in HeaderNames :
            C12_AuthValue(n) # None => sent[i].headers[n] = C12_AuthValue(n)

C12_Witness ==
    /\ Ended /\ sig.scheme = "V1" /\ Len(sent) = 1
    /\ op.name = "post_form"
    /\ sent[1].verb = "POST"
    /\ sent[1].headers["Content-Type"] = Some(<<"application/json">>)
    /\ sent[1].headers["X-Signature"] = Some(sig.signature)
    /\ sent[1].headers["User-Agent"] = Some(<<"python-requests">>)

(* C13: the stored base URL ends with exactly one trailing slash and no      *)
(* operation changes it; for every relative path passed to a request        *)
(* operation, the URL handed to the transport is that base URL followed by  *)
(* the path with its leading slashes removed.                               *)
C13_OneTrailingSlash(url) ==
    /\ Len(url) >= 2
    /\ url[Len(url)] = "/"
    /\ url[Len(url) - 1] # "/"

C13_BaseUrlKept ==
    /\ C13_OneTrailingSlash(cli.base_url)
    /\ cli.base_url \in { RStrip(b, "/") \o <<"/">> : b \in BaseUrls }

C13_UnderBaseUrl ==
    /\ C13_BaseUrlKept
    /\ Ended => \A i \in 1..Len(sent) :
                    sent[i].url = cli.base_url \o LStrip(op.url, "/")

(* C14: every call a key client hands to the transport carries X-Api-Key,   *)
(* X-Timestamp, X-Nonce and X-Signature, with the timestamp and nonce made  *)
(* during that same call and the signature computed over exactly the key,   *)
(* timestamp and nonce sent; if signature generation fails, the operation   *)
(* fails and no call to the transport is made.                              *)
IsKeyClient == cli.class \in {"OpenAPIKeyClient", "OpenAPIKeyClientV2"}

\* The timestamp text of this operation's clock reading in scheme V1 or V2.
C14_Timestamp == IF cli.class = "OpenAPIKeyClient" THEN IntToStr(op.now)
                 ELSE IntToStr(op.now \div 1000)

\* The text that must have been signed for the headers h of a call.
C14_SignedText(h) ==
    IF cli.class = "OpenAPIKeyClient"
    THEN Val(h["X-Api-Key"]) \o Val(h["X-Timestamp"]) \o Val(h["X-Nonce"]) \o sig.body
    ELSE Upper(op.method) \o sig.path \o Val(h["X-Api-Key"]) \o Val(h["X-Timestamp"])
             \o Val(h["X-Nonce"])
             \o (IF sig.body = <<>> THEN <<>> ELSE Sha256Hex(sig.body))

C14_SignedAndFresh ==
    (Ended /\ IsKeyClient) =>
        /\ \A i \in 1..Len(sent) :
              /\ cli.api_secret # None
              /\ sent[i].headers["X-Api-Key"] = Some(cli.api_key)
              /\ sent[i].headers["X-Timestamp"] = Some(C14_Timestamp)
              /\ sent[i].headers["X-Nonce"] = Some(op.nonce)
              /\ sent[i].headers["X-Signature"] =
                     Some(HmacSha256Hex(Val(cli.api_secret), C14_SignedText(sent[i].headers)))
        /\ cli.api_secret = None => (out.kind = "raise" /\ sent = <<>> /\ resp = None)

C14_Witness ==
    /\ Ended /\ cli.class = "OpenAPIKeyClient" /\ op.name = "post"
    /\ op.now = 2000 /\ op.nonce = <<"n2">> /\ op.data = DDict(<<>>)
    /\ Len(sent) = 1
    /\ sent[1].headers["X-Timestamp"] = Some(<<"2", "0", "0", "0">>)
    /\ sent[1].headers["X-Nonce"] = Some(<<"n2">>)
    /\ sent[1].headers["X-Signature"] =
           Some(<<"hmac(", "s", ",", "k", "2", "0", "0", "0", "n2", "{", "}", ")">>)

(* C15: the query parameters passed as params to get(url, params) and to    *)
(* request(method, url, data, params) are part of the URL of the request    *)
(* handed to the transport, and for OpenAPIKeyClientV2.request part of the  *)
(* path-with-query that is signed.                                          *)
\* The query string of the params of this operation.
C15_Query == <<"?">> \o UrlEncodeItems(op.params.items)

\* s ends with the text t.
C15_EndsWith(s, t) ==
    /\ Len(s) >= Len(t)
    /\ SubSeq(s, Len(s) - Len(t) + 1, Len(s)) = t

C15_ParamsInUrl ==
    (Ended /\ op.name \in {"get", "request"}
           /\ op.params.t = "dict" /\ op.params.items # <<>>) =>
        /\ \A i \in 1..Len(sent) : C15_EndsWith(sent[i].url, C15_Query)
        /\ sig.scheme = "V2" => C15_EndsWith(sig.path, C15_Query)

(* C16: each call of a public request operation with a supported method     *)
(* (get, post, post_form, put, delete, request with GET/POST/PUT/DELETE) on *)
(* any of the four clients, with its credentials in place, makes exactly    *)
(* one call to the transport before it ends: never zero, never a second.    *)
C16_SupportedOperation ==
    \/ op.name \in {"get", "post", "post_form", "put", "delete"}
    \/ op.name = "request" /\ Upper(op.method) \in {M_GET, M_POST, M_PUT, M_DELETE}

C16_ExactlyOneCall ==
    (Ended /\ C16_SupportedOperation /\ (IsKeyClient => cli.api_secret # None)) =>
        Len(sent) = 1

(***************************************************************************)
(* OpenAPITokenClient.py: TokenManager                                     *)
(***************************************************************************)
\* The names bound in the module's namespace by its import statements.
TokenClientModuleNames ==
    { "json", "Dict", "Any", "Optional", "Union", "urljoin", "HttpClient",
      "HttpClientOption" }

\* TokenManager.__init__: the manager's own fields.
TokenManagerInit(base_url, token, refresh_url, refresh_interval) ==
    [ base_url |-> base_url, current_token |-> token, refresh_url |-> refresh_url,
      refresh_interval |-> refresh_interval, last_refresh_time |-> 0 ]

\* TokenManager.__init__: the client it creates.
TokenManagerClient(base_url, token) ==
    TokenClientV2Init(base_url, token, "Authorization", BearerFormat)

TokenManagerHttp(token) ==
    TokenClientV2Http(token, Some(30), TRUE, None, "Authorization", BearerFormat)

AccessTokenKey == <<"a", "c", "c", "e", "s", "s", "_", "t", "o", "k", "e", "n">>

\* isinstance(response, dict) and key in response, then response[key]: the
\* value of the key's last member, or None when the test fails.
Member(value, key) ==
    IF value.t = "json" /\ value.json.t = "obj"
       /\ \E i \in 1..Len(value.json.members) : value.json.members[i][1] = key
    THEN LET ms == value.json.members
             last == CHOOSE i \in 1..Len(ms) :
                        /\ ms[i][1] = key
                        /\ \A j \in (i + 1)..Len(ms) : ms[j][1] # key
         IN  Some(ms[last][2])
    ELSE None

\* The access_token of what self.client.post returned or raised: None when
\* it raised or when the value is not a dict holding the key.
AccessToken(response) ==
    IF response.kind = "return" THEN Member(response.value, AccessTokenKey) ELSE None

\* TokenManager.refresh from the answer of its call on: the state it leaves
\* (manager, client, HttpClient), the calls it made and the bool it returns.
\* access is the access_token found in the answer, a JSON string in
\* ManagerResponses.  The name time is looked up when line 415 runs; the
\* NameError of an unbound name is caught by the except clause of refresh.
RefreshOutcome(m, client, hc, calls, access, now) ==
    IF access = None
    THEN [mgr |-> m, cli |-> client, http |-> hc, calls |-> calls, ret |-> FALSE]
    ELSE IF "time" \notin TokenClientModuleNames
    THEN [ mgr |-> [m EXCEPT !.current_token = Val(access).s],
           cli |-> RefreshSetToken(client, Val(access).s),
           http |-> RefreshSetHeader(client, hc, Val(access).s),
           calls |-> calls, ret |-> FALSE ]
    ELSE [ mgr |-> [m EXCEPT !.current_token = Val(access).s,
                             !.last_refresh_time = now],
           cli |-> RefreshSetToken(client, Val(access).s),
           http |-> RefreshSetHeader(client, hc, Val(access).s),
           calls |-> calls, ret |-> TRUE ]

\* TokenManager.refresh with the transport answering r and the clock at now.
ManagerRefresh(m, client, hc, r, now) ==
    IF ~TruthyStr(m.refresh_url)
    THEN [mgr |-> m, cli |-> client, http |-> hc, calls |-> <<>>, ret |-> FALSE]
    ELSE RefreshOutcome(m, client, hc,
             TokenPost(client, hc, Val(m.refresh_url),
                       DDict(<< <<<<"token">>, m.current_token>> >>)).calls,
             AccessToken(Finish(r)), now)

\* TokenManager.should_refresh, once time.time() has given now.
ShouldRefresh(m, now) ==
    TruthyStr(m.refresh_url) /\ now - m.last_refresh_time > m.refresh_interval

\* The value of refresh() is dropped by get and post.
Discarded(a) ==
    [mgr |-> a.mgr, cli |-> a.cli, http |-> a.http, calls |-> a.calls, exc |-> None]

\* "if auto_refresh and self.should_refresh(): self.refresh()" of get and
\* post: the state it leaves, the calls it made, and the exception that
\* ends the operation there, if any (should_refresh looks up the name time).
AutoRefresh(m, client, hc, auto_refresh, r, now) ==
    IF ~auto_refresh
    THEN [mgr |-> m, cli |-> client, http |-> hc, calls |-> <<>>, exc |-> None]
    ELSE IF "time" \notin TokenClientModuleNames
    THEN [mgr |-> m, cli |-> client, http |-> hc, calls |-> <<>>, exc |-> Some("NameError")]
    ELSE IF ShouldRefresh(m, now)
    THEN Discarded(ManagerRefresh(m, client, hc, r, now))
    ELSE [mgr |-> m, cli |-> client, http |-> hc, calls |-> <<>>, exc |-> None]

(***************************************************************************)
(* Use of one TokenManager: one method per step                            *)
(***************************************************************************)
ManagerBaseUrl == <<"https://", "h", "/", "v">>

RefreshUrls == { None, Some(<<>>), Some(<<"r">>) }

\* refresh_interval: int = 3600.
RefreshInterval == 3600

\* Readings of the clock in seconds.
ManagerClocks == { 100, 5000 }

\* The body {"access_token":"<token>"}.
AccessTokenBody(token) ==
    <<"{", "\"">> \o AccessTokenKey \o <<"\"", ":", "\"">> \o token \o <<"\"", "}">>

ManagerContents ==
    { AccessTokenBody(<<"t", "1">>), AccessTokenBody(<<"t", "2">>),
      <<"{", "\"", "a", "\"", ":", "1", "}">>,
      <<"n", "o", "t", "-", "j", "s", "o", "n">> }

ManagerResponses ==
    { [kind |-> "response", status_code |-> c, content |-> b] :
        c \in {200, 404}, b \in ManagerContents }
    \cup { [kind |-> "error", status_code |-> 0, content |-> <<>>] }

ManagerInit ==
    /\ \E u \in RefreshUrls :
          mgr = TokenManagerInit(ManagerBaseUrl, <<"t", "0">>, u, RefreshInterval)
    /\ cli = TokenManagerClient(ManagerBaseUrl, <<"t", "0">>)
    /\ http = TokenManagerHttp(<<"t", "0">>)
    /\ sent = <<>>
    /\ op = NoOp
    /\ resp = None
    /\ out = NoOut
    /\ sig = NoSig
    /\ thr = NoThreads

\* TokenManager.refresh().
DoManagerRefresh ==
    /\ out.kind = "none"
    /\ \E r \in ManagerResponses, now \in ManagerClocks :
       \E a \in {ManagerRefresh(mgr, cli, http, r, now)} :
          /\ op' = [NoOp EXCEPT !.name = "refresh", !.now = now]
          /\ mgr' = a.mgr /\ cli' = a.cli /\ http' = a.http
          /\ sent' = a.calls
          /\ resp' = IF a.calls = <<>> THEN None ELSE Some(r)
          /\ out' = Return(BoolValue(a.ret))
    /\ UNCHANGED <<sig, thr>>

\* TokenManager.get(url, auto_refresh).
DoManagerGet ==
    /\ out.kind = "none"
    /\ \E url \in RelativeUrls, auto_refresh \in BOOLEAN, r1 \in ManagerResponses,
          now \in ManagerClocks :
       \E b \in {AutoRefresh(mgr, cli, http, auto_refresh, r1, now)} :
          /\ op' = [NoOp EXCEPT !.name = "get", !.method = M_GET, !.url = url, !.now = now]
          /\ mgr' = b.mgr /\ cli' = b.cli /\ http' = b.http
          /\ IF b.exc # None
             THEN sent' = b.calls /\ resp' = None /\ out' = Raise(Val(b.exc), <<>>)
             ELSE \E r2 \in ManagerResponses :
                     /\ sent' = b.calls \o TokenGet(b.cli, b.http, url, DNone).calls
                     /\ resp' = Some(r2)
                     /\ out' = Finish(r2)
    /\ UNCHANGED <<sig, thr>>

\* TokenManager.post(url, data, auto_refresh).
DoManagerPost ==
    /\ out.kind = "none"
    /\ \E url \in RelativeUrls, data \in Dicts, auto_refresh \in BOOLEAN,
          r1 \in ManagerResponses, now \in ManagerClocks :
       \E b \in {AutoRefresh(mgr, cli, http, auto_refresh, r1, now)} :
          /\ op' = [NoOp EXCEPT !.name = "post", !.method = M_POST, !.url = url,
                                !.data = data, !.now = now]
          /\ mgr' = b.mgr /\ cli' = b.cli /\ http' = b.http
          /\ IF b.exc # None
             THEN sent' = b.calls /\ resp' = None /\ out' = Raise(Val(b.exc), <<>>)
             ELSE \E r2 \in ManagerResponses :
                     /\ sent' = b.calls \o TokenPost(b.cli, b.http, url, data).calls
                     /\ resp' = Some(r2)
                     /\ out' = Finish(r2)
    /\ UNCHANGED <<sig, thr>>

ManagerNext ==
    \/ Returned
    \/ DoManagerRefresh
    \/ DoManagerGet
    \/ DoManagerPost

SpecManager == ManagerInit /\ [][ManagerNext]_vars

(* C17: TokenManager.refresh returns True only after current_token, the      *)
(* client's token and Authorization header, and last_refresh_time have all  *)
(* been updated to the new token; whenever it returns False, all four are   *)
(* unchanged; so current_token equals the client's token between operations.*)
\* The step is a call of refresh() that returns b.
C17_RefreshReturns(b) ==
    /\ out.kind = "none"
    /\ op'.name = "refresh"
    /\ out' = Return(BoolValue(b))

C17_AllOrNothing ==
    [][ /\ mgr'.current_token = cli'.token
        /\ C17_RefreshReturns(TRUE) =>
              /\ \E t \in Tokens : /\ Val(resp').content = AccessTokenBody(t)
                                   /\ mgr'.current_token = t
              /\ http'.headers["Authorization"] = Some(<<"Bearer ">> \o mgr'.current_token)
              /\ mgr'.last_refresh_time = op'.now
        /\ C17_RefreshReturns(FALSE) =>
              /\ mgr'.current_token = mgr.current_token
              /\ cli'.token = cli.token
              /\ http'.headers = http.headers
              /\ mgr'.last_refresh_time = mgr.last_refresh_time
      ]_vars

====
